---- MODULE Spec2Model ----
(***************************************************************************)
(* Hand-history extraction engine of poker-analysis:                       *)
(* PokerLogParser (src/poker_parser.py), the state machine that turns an   *)
(* ordered stream of log entries into PokerHand records.                   *)
(*                                                                         *)
(* Python objects are modelled by reference: `heap` holds every PokerHand  *)
(* ever constructed, `hands` and `current_hand` hold references (indices   *)
(* into heap), so that two references to one object stay one object.       *)
(* Optional values are sequences of length at most one: <<>> is Python's   *)
(* None and <<x>> is the value x.                                          *)
(***************************************************************************)
EXTENDS Integers, Sequences, FiniteSets, TLC

\* Longest entry stream (number of rows of the log file) explored.
MaxLen == 3

NoneV == <<>>
Some(x) == <<x>>
NoHand == 0

Range(s) == {s[i] : i \in DOMAIN s}

(***************************************************************************)
(* Text of a log entry.  An entry is described by what the parser's        *)
(* substring tests and regular expressions can see of it:                  *)
(*   has        the marker substrings the text contains;                   *)
(*   hand_match the groups of the hand-start regex, when it matches;       *)
(*   stacks     the ("name", amount) pairs the stack regex finds;          *)
(*   brackets   the contents of the [...] groups, each a token sequence;   *)
(*   shows      the player of '"name" shows a', when present;              *)
(*   hole       the tokens after 'shows a ';                               *)
(*   clauses    the action clauses ('"name" bets 10'), left to right,      *)
(*              each with its player, its phrase and its digits if any.    *)
(***************************************************************************)
StartMark == "-- starting hand #"
EndMark == "-- ending hand #"
StacksMark == "Player stacks:"
FlopMark == "Flop:"
TurnMark == "Turn:"
RiverMark == "River:"
ShowsMark == " shows a "

Blank ==
  [has |-> {}, hand_match |-> NoneV, stacks |-> <<>>, brackets |-> <<>>,
   shows |-> NoneV, hole |-> <<>>, clauses |-> <<>>]

Clause(p, phrase, digits) == [player |-> p, phrase |-> phrase, digits |-> digits]

\* Tokens of card text: the first four are cards, "10h" is not one (the card
\* pattern has no two-character rank).
CardTokens == {"Qh", "6s", "8c", "9h"}

\* '-- starting hand #1 (id: h1)  (No Limit) (dealer: "a") --'
EStartOk ==
  [Blank EXCEPT !.has = {StartMark},
                !.hand_match = Some([num |-> 1, id |-> "h1", dealer |-> "a"])]
\* '-- starting hand #2 (id: h2)  (No Limit) (dead button) --'
EStartNoDealer == [Blank EXCEPT !.has = {StartMark}]
\* '-- ending hand #1 --'
EEnd == [Blank EXCEPT !.has = {EndMark}]
\* 'Player stacks: #1 "a" (100) | #2 "b" (200) | #3 "a" (300)'
EStacks ==
  [Blank EXCEPT !.has = {StacksMark},
                !.stacks = << <<"a", 100>>, <<"b", 200>>, <<"a", 300>> >>]
\* 'Flop:  [Qh, 6s, 8c]'
EFlop == [Blank EXCEPT !.has = {FlopMark}, !.brackets = << <<"Qh", "6s", "8c">> >>]
\* 'Flop:  [Qh, 6s, 8c, 9h]'
EFlopFour ==
  [Blank EXCEPT !.has = {FlopMark}, !.brackets = << <<"Qh", "6s", "8c", "9h">> >>]
\* 'Turn: Qh, 6s, 8c [10h, 9h]'
ETurn == [Blank EXCEPT !.has = {TurnMark}, !.brackets = << <<"10h", "9h">> >>]
\* 'River: Qh, 6s, 8c, 9h [] [6s, Qh]'
ERiver == [Blank EXCEPT !.has = {RiverMark}, !.brackets = << <<>>, <<"6s", "Qh">> >>]
\* 'River: no card'
ERiverNoCard == [Blank EXCEPT !.has = {RiverMark}]
\* '"b" shows a 10h, 9h.'
EShows ==
  [Blank EXCEPT !.has = {ShowsMark}, !.shows = Some("b"), !.hole = <<"10h", "9h">>]
\* '"a" posts a big blind of 20'
EBlind == [Blank EXCEPT !.clauses = <<Clause("a", "posts a big blind of", Some(20))>>]
\* '"b" raises to 60'
ERaise == [Blank EXCEPT !.clauses = <<Clause("b", "raises to", Some(60))>>]
\* '"a" bets 10'
EBet == [Blank EXCEPT !.clauses = <<Clause("a", "bets", Some(10))>>]
\* '"a" bets big'  (the bet phrase, no integer)
EBetNoAmount == [Blank EXCEPT !.clauses = <<Clause("a", "bets", NoneV)>>]
\* '"b" checks'
ECheck == [Blank EXCEPT !.clauses = <<Clause("b", "checks", NoneV)>>]
\* '"a" checks "b" folds'  (fits the check and the fold pattern)
ECheckFold ==
  [Blank EXCEPT !.clauses = <<Clause("a", "checks", NoneV), Clause("b", "folds", NoneV)>>]
\* '"b" collected 50 from pot'
ECollected == [Blank EXCEPT !.clauses = <<Clause("b", "collected", Some(50))>>]
\* '"a" collected 70 from pot'  (a second collection, as in a split pot)
ECollectedAgain == [Blank EXCEPT !.clauses = <<Clause("a", "collected", Some(70))>>]
\* 'Uncalled bet of 30 returned to "a"'
EUncalled == [Blank EXCEPT !.clauses = <<Clause("a", "Uncalled bet of", Some(30))>>]
\* '"Flop: king" bets 10'  (a player name holding a marker)
EFlopNamedBet ==
  [Blank EXCEPT !.has = {FlopMark}, !.clauses = <<Clause("Flop: king", "bets", Some(10))>>]
\* 'The admin approved the player "b"'
EOther == Blank

Entries ==
  {EStartOk, EStartNoDealer, EEnd, EStacks, EFlop, EFlopFour, ETurn, ERiver,
   ERiverNoCard, EShows, EBlind, ERaise, EBet, EBetNoAmount, ECheck, ECheckFold,
   ECollected, ECollectedAgain, EUncalled, EFlopNamedBet, EOther}

(***************************************************************************)
(* PlayerNameMapper: the mapping file maps game name "a" to "Alice".       *)
(***************************************************************************)
name_mapping == [g \in {"a"} |-> "Alice"]

get_real_name(game_name) ==
  IF game_name \in DOMAIN name_mapping THEN name_mapping[game_name] ELSE game_name

VARIABLES
  hands,          \* PokerLogParser.hands: references to PokerHand objects
  current_hand,   \* PokerLogParser.current_hand: a reference, or NoHand
  current_stage,  \* PokerLogParser.current_stage
  all_players,    \* PokerLogParser.all_players
  heap,           \* the PokerHand objects constructed so far
  rows,           \* the rows of the log file processed so far, in order
  pc,             \* parse_log_file: "reading" its rows, or "done"
  hand_dict,      \* one hand of parsed_hands.json, as export_to_json wrote it
  input_hand,     \* process_parsed_hands_file: that hand after json.load
  enhanced_hand,  \* analyze_hand_actions(input_hand), once it has run
  rerun_hand,     \* analyze_hand_actions(enhanced_hand), once it has run
  second_run      \* the enhanced hand of a second run over the same file

\* The assembler's variables and the analyzer's.
parser_vars == <<hands, current_hand, current_stage, all_players, heap, rows, pc>>
analyzer_vars == <<hand_dict, input_hand, enhanced_hand, rerun_hand, second_run>>

vars == <<hands, current_hand, current_stage, all_players, heap, rows, pc,
          hand_dict, input_hand, enhanced_hand, rerun_hand, second_run>>

\* clean_player_name, called on '"name"': the mapped name.  (Its side effect,
\* all_players.add, is in the actions that call it.)
clean_player_name(name) == get_real_name(name)

\* parse_cards: the tokens the card pattern matches, in text order.
parse_cards(tokens) == SelectSeq(tokens, LAMBDA t : t \in CardTokens)

\* parse_flop_cards: the cards of the first bracket group, [] without one.
parse_flop_cards(entry) ==
  IF entry.brackets # <<>> THEN parse_cards(entry.brackets[1]) ELSE <<>>

\* parse_turn_river_card: the first card of the first non-empty bracket group.
parse_turn_river_card(entry) ==
  LET nonEmpty == SelectSeq(entry.brackets, LAMBDA b : b # <<>>)
  IN  IF nonEmpty # <<>>
      THEN LET cards == parse_cards(nonEmpty[1])
           IN  IF cards # <<>> THEN Some(cards[1]) ELSE NoneV
      ELSE NoneV

\* parse_hole_cards: the cards after 'shows a '.
parse_hole_cards(entry) == parse_cards(entry.hole)

\* A dict as the sequence of its <<key, value>> items in insertion order.
DictKeys(d) == [i \in DOMAIN d |-> d[i][1]]

DictSet(d, k, v) ==
  IF \E i \in DOMAIN d : d[i][1] = k
  THEN [i \in DOMAIN d |-> IF d[i][1] = k THEN <<k, v>> ELSE d[i]]
  ELSE Append(d, <<k, v>>)

RECURSIVE StacksFrom(_, _)
StacksFrom(matches, stacks) ==
  IF matches = <<>> THEN stacks
  ELSE StacksFrom(Tail(matches),
                  DictSet(stacks, clean_player_name(Head(matches)[1]), Head(matches)[2]))

\* parse_player_stacks: real name -> amount, for each pair the regex finds.
parse_player_stacks(entry) == StacksFrom(entry.stacks, <<>>)

\* PokerHand(...) with __post_init__.
PokerHand(hand_id, hand_number, dealer, timestamp) ==
  [hand_id |-> hand_id, hand_number |-> hand_number, dealer |-> dealer,
   players |-> <<>>, player_stacks |-> <<>>,
   preflop_actions |-> <<>>, flop_actions |-> <<>>,
   turn_actions |-> <<>>, river_actions |-> <<>>,
   flop_cards |-> NoneV, turn_card |-> NoneV, river_card |-> NoneV,
   showdown |-> <<>>,
   pot_size |-> 0, winner |-> NoneV, winning_amount |-> 0,
   timestamp |-> timestamp]

\* Mutant of PlayerAction: an action without an amount is given the amount 0.
PlayerActionZeroAmount(player, action, amount, timestamp, stage) ==
  [player |-> player, action |-> action,
   amount |-> IF amount = NoneV THEN Some(0) ELSE amount,
   timestamp |-> timestamp, stage |-> stage]

PlayerAction(player, action, amount, timestamp, stage) ==
  [player |-> player, action |-> action, amount |-> amount,
   timestamp |-> timestamp, stage |-> stage]

ShowdownInfo(player, hole_cards) ==
  [player |-> player, hole_cards |-> hole_cards, hand_rank |-> NoneV]

\* action_patterns, in list order; digits tells whether the pattern has a
\* (\d+) group, which the text must then supply.
action_patterns ==
  << [phrase |-> "posts a small blind of", type |-> "blind", digits |-> TRUE],
     [phrase |-> "posts a big blind of", type |-> "blind", digits |-> TRUE],
     [phrase |-> "raises to", type |-> "raise", digits |-> TRUE],
     [phrase |-> "raises by", type |-> "raise", digits |-> TRUE],
     [phrase |-> "bets", type |-> "bet", digits |-> TRUE],
     [phrase |-> "calls", type |-> "call", digits |-> TRUE],
     [phrase |-> "goes all-in with", type |-> "all-in", digits |-> TRUE],
     [phrase |-> "folds", type |-> "fold", digits |-> FALSE],
     [phrase |-> "checks", type |-> "check", digits |-> FALSE],
     [phrase |-> "collected", type |-> "win", digits |-> TRUE],
     [phrase |-> "Uncalled bet of", type |-> "return", digits |-> TRUE] >>

\* re.search(pattern, entry): the leftmost clause the pattern matches.
Matches(pattern, clause) ==
  /\ clause.phrase = pattern.phrase
  /\ pattern.digits => clause.digits # NoneV

PatternMatch(pattern, entry) ==
  SelectSeq(entry.clauses, LAMBDA c : Matches(pattern, c))

\* The index of the first pattern of action_patterns that matches, 0 if none:
\* the loop over action_patterns up to its break.
FirstPattern(entry) ==
  LET hit == {i \in DOMAIN action_patterns : PatternMatch(action_patterns[i], entry) # <<>>}
  IN  IF hit = {} THEN 0 ELSE CHOOSE i \in hit : \A j \in hit : i <= j

\* Mutant of AddToStage: the stage is ignored, every action goes to preflop.
AddToStageAlwaysPreflop(hand, action, stage) ==
  [hand EXCEPT !.preflop_actions = Append(@, action)]

\* "Add to appropriate stage": the hand with the action at the end of the
\* list of the stage.
AddToStage(hand, action, stage) ==
  IF stage = "preflop" THEN [hand EXCEPT !.preflop_actions = Append(@, action)]
  ELSE IF stage = "flop" THEN [hand EXCEPT !.flop_actions = Append(@, action)]
  ELSE IF stage = "turn" THEN [hand EXCEPT !.turn_actions = Append(@, action)]
  ELSE IF stage = "river" THEN [hand EXCEPT !.river_actions = Append(@, action)]
  ELSE hand

ParserInit ==
  /\ hands = <<>>
  /\ current_hand = NoHand
  /\ current_stage = "preflop"
  /\ all_players = {}
  /\ heap = <<>>
  /\ rows = <<>>
  /\ pc = "reading"

\* No parsed_hands.json has been handed to the analyzer.
AnalyzerIdle ==
  /\ hand_dict = NoneV
  /\ input_hand = NoneV
  /\ enhanced_hand = NoneV
  /\ rerun_hand = NoneV
  /\ second_run = NoneV

Init == ParserInit /\ AnalyzerIdle

\* Mutant of StartingHand: the groups are read without "if hand_match", so
\* a marker the regex does not match raises and the entry cannot be processed.
StartingHandUnguarded(entry, timestamp) ==
  /\ entry.hand_match # NoneV
  /\ hands' = IF current_hand # NoHand THEN Append(hands, current_hand) ELSE hands
  /\ LET m == entry.hand_match[1]
     IN  /\ all_players' = all_players \cup {m.dealer}
         /\ heap' = Append(heap, PokerHand(m.id, m.num, clean_player_name(m.dealer),
                                           timestamp))
         /\ current_hand' = Len(heap) + 1
         /\ current_stage' = "preflop"

\* if "-- starting hand #" in entry
StartingHand(entry, timestamp) ==
  /\ hands' = IF current_hand # NoHand THEN Append(hands, current_hand) ELSE hands
  /\ IF entry.hand_match # NoneV
     THEN LET m == entry.hand_match[1]
          IN  /\ all_players' = all_players \cup {m.dealer}
              /\ heap' = Append(heap, PokerHand(m.id, m.num, clean_player_name(m.dealer),
                                                timestamp))
              /\ current_hand' = Len(heap) + 1
              /\ current_stage' = "preflop"
     ELSE UNCHANGED <<all_players, heap, current_hand, current_stage>>

\* Mutant of EndingHand: the end marker resets the stage.
EndingHandResetsStage(entry) ==
  /\ current_stage' = "preflop"
  /\ UNCHANGED <<hands, current_hand, all_players, heap>>

\* Mutant of EndingHand: the end marker seals the current hand.
EndingHandSeals(entry) ==
  /\ hands' = IF current_hand # NoHand THEN Append(hands, current_hand) ELSE hands
  /\ current_hand' = NoHand
  /\ UNCHANGED <<current_stage, all_players, heap>>

\* elif "-- ending hand #" in entry
EndingHand(entry) ==
  UNCHANGED <<hands, current_hand, current_stage, all_players, heap>>

\* Mutant of PlayerStacks: a stack declaration puts the hand back to preflop.
PlayerStacksResetsStage(entry) ==
  /\ IF current_hand # NoHand
     THEN LET stacks == parse_player_stacks(entry)
          IN  /\ all_players' = all_players \cup {entry.stacks[i][1] : i \in DOMAIN entry.stacks}
              /\ heap' = [heap EXCEPT ![current_hand] =
                            [@ EXCEPT !.player_stacks = stacks,
                                      !.players = DictKeys(stacks)]]
              /\ current_stage' = "preflop"
     ELSE UNCHANGED <<all_players, heap, current_stage>>
  /\ UNCHANGED <<hands, current_hand>>

\* elif "Player stacks:" in entry
PlayerStacks(entry) ==
  /\ IF current_hand # NoHand
     THEN LET stacks == parse_player_stacks(entry)
          IN  /\ all_players' = all_players \cup {entry.stacks[i][1] : i \in DOMAIN entry.stacks}
              /\ heap' = [heap EXCEPT ![current_hand] =
                            [@ EXCEPT !.player_stacks = stacks,
                                      !.players = DictKeys(stacks)]]
     ELSE UNCHANGED <<all_players, heap>>
  /\ UNCHANGED <<hands, current_hand, current_stage>>

\* Mutant of FlopReveal: the stage is set before the current hand is tested.
FlopRevealStageUnguarded(entry) ==
  /\ current_stage' = "flop"
  /\ IF current_hand # NoHand
     THEN heap' = [heap EXCEPT ![current_hand].flop_cards =
                     Some(parse_flop_cards(entry))]
     ELSE UNCHANGED heap
  /\ UNCHANGED <<hands, current_hand, all_players>>

\* elif "Flop:" in entry
FlopReveal(entry) ==
  /\ IF current_hand # NoHand
     THEN /\ current_stage' = "flop"
          /\ heap' = [heap EXCEPT ![current_hand].flop_cards =
                        Some(parse_flop_cards(entry))]
     ELSE UNCHANGED <<current_stage, heap>>
  /\ UNCHANGED <<hands, current_hand, all_players>>

\* elif "Turn:" in entry
TurnReveal(entry) ==
  /\ IF current_hand # NoHand
     THEN /\ current_stage' = "turn"
          /\ heap' = [heap EXCEPT ![current_hand].turn_card =
                        parse_turn_river_card(entry)]
     ELSE UNCHANGED <<current_stage, heap>>
  /\ UNCHANGED <<hands, current_hand, all_players>>

\* elif "River:" in entry
RiverReveal(entry) ==
  /\ IF current_hand # NoHand
     THEN /\ current_stage' = "river"
          /\ heap' = [heap EXCEPT ![current_hand].river_card =
                        parse_turn_river_card(entry)]
     ELSE UNCHANGED <<current_stage, heap>>
  /\ UNCHANGED <<hands, current_hand, all_players>>

\* elif " shows a " in entry
Showdown(entry) ==
  /\ IF current_hand # NoHand /\ entry.shows # NoneV
     THEN /\ all_players' = all_players \cup {entry.shows[1]}
          /\ heap' = [heap EXCEPT ![current_hand].showdown =
                        Append(@, ShowdownInfo(clean_player_name(entry.shows[1]),
                                               parse_hole_cards(entry)))]
     ELSE UNCHANGED <<all_players, heap>>
  /\ UNCHANGED <<hands, current_hand, current_stage>>

\* Mutant of PlayerActions: an uncalled-bet return is handled like a pot
\* collection and sets winner, winning_amount and pot_size.
PlayerActionsReturnUpdates(entry, timestamp) ==
  /\ LET k == FirstPattern(entry)
     IN  IF current_hand # NoHand /\ k # 0
         THEN LET action_type == action_patterns[k].type
                  match == PatternMatch(action_patterns[k], entry)[1]
              IN  IF action_type \in {"win", "return"}
                  THEN /\ all_players' = all_players \cup {match.player}
                       /\ heap' = [heap EXCEPT ![current_hand] =
                                     [@ EXCEPT !.winner = Some(clean_player_name(match.player)),
                                               !.winning_amount = match.digits[1],
                                               !.pot_size = match.digits[1]]]
                  ELSE /\ all_players' = all_players \cup {match.player}
                       /\ heap' = [heap EXCEPT ![current_hand] =
                                     AddToStage(@, PlayerAction(clean_player_name(match.player),
                                                                action_type,
                                                                IF action_patterns[k].digits
                                                                THEN match.digits ELSE NoneV,
                                                                timestamp, current_stage),
                                                current_stage)]
         ELSE UNCHANGED <<all_players, heap>>
  /\ UNCHANGED <<hands, current_hand, current_stage>>

\* Mutant of PlayerActions: a pot collection adds its amount to the Hand's
\* winning_amount and pot_size.
PlayerActionsSumsPot(entry, timestamp) ==
  /\ LET k == FirstPattern(entry)
     IN  IF current_hand # NoHand /\ k # 0
         THEN LET action_type == action_patterns[k].type
                  match == PatternMatch(action_patterns[k], entry)[1]
              IN  IF action_type = "win"
                  THEN /\ all_players' = all_players \cup {match.player}
                       /\ heap' = [heap EXCEPT ![current_hand] =
                                     [@ EXCEPT !.winner = Some(clean_player_name(match.player)),
                                               !.winning_amount = @ + match.digits[1],
                                               !.pot_size = @ + match.digits[1]]]
                  ELSE IF action_type = "return"
                  THEN UNCHANGED <<all_players, heap>>
                  ELSE /\ all_players' = all_players \cup {match.player}
                       /\ heap' = [heap EXCEPT ![current_hand] =
                                     AddToStage(@, PlayerAction(clean_player_name(match.player),
                                                                action_type,
                                                                IF action_patterns[k].digits
                                                                THEN match.digits ELSE NoneV,
                                                                timestamp, current_stage),
                                                current_stage)]
         ELSE UNCHANGED <<all_players, heap>>
  /\ UNCHANGED <<hands, current_hand, current_stage>>

\* elif self.current_hand: the first matching pattern of action_patterns
PlayerActions(entry, timestamp) ==
  /\ LET k == FirstPattern(entry)
     IN  IF current_hand # NoHand /\ k # 0
         THEN LET action_type == action_patterns[k].type
                  match == PatternMatch(action_patterns[k], entry)[1]
              IN  IF action_type = "win"
                  THEN /\ all_players' = all_players \cup {match.player}
                       /\ heap' = [heap EXCEPT ![current_hand] =
                                     [@ EXCEPT !.winner = Some(clean_player_name(match.player)),
                                               !.winning_amount = match.digits[1],
                                               !.pot_size = match.digits[1]]]
                  ELSE IF action_type = "return"
                  THEN UNCHANGED <<all_players, heap>>
                  ELSE /\ all_players' = all_players \cup {match.player}
                       /\ heap' = [heap EXCEPT ![current_hand] =
                                     AddToStage(@, PlayerAction(clean_player_name(match.player),
                                                                action_type,
                                                                IF action_patterns[k].digits
                                                                THEN match.digits ELSE NoneV,
                                                                timestamp, current_stage),
                                                current_stage)]
         ELSE UNCHANGED <<all_players, heap>>
  /\ UNCHANGED <<hands, current_hand, current_stage>>

\* Mutant of process_entry: the action patterns are tried before the markers.
process_entryPatternsFirst(entry, timestamp) ==
  IF FirstPattern(entry) # 0 THEN PlayerActions(entry, timestamp)
  ELSE IF StartMark \in entry.has THEN StartingHand(entry, timestamp)
  ELSE IF EndMark \in entry.has THEN EndingHand(entry)
  ELSE IF StacksMark \in entry.has THEN PlayerStacks(entry)
  ELSE IF FlopMark \in entry.has THEN FlopReveal(entry)
  ELSE IF TurnMark \in entry.has THEN TurnReveal(entry)
  ELSE IF RiverMark \in entry.has THEN RiverReveal(entry)
  ELSE IF ShowsMark \in entry.has THEN Showdown(entry)
  ELSE PlayerActions(entry, timestamp)

\* process_entry(entry, timestamp): the if/elif chain.
process_entry(entry, timestamp) ==
  IF StartMark \in entry.has THEN StartingHand(entry, timestamp)
  ELSE IF EndMark \in entry.has THEN EndingHand(entry)
  ELSE IF StacksMark \in entry.has THEN PlayerStacks(entry)
  ELSE IF FlopMark \in entry.has THEN FlopReveal(entry)
  ELSE IF TurnMark \in entry.has THEN TurnReveal(entry)
  ELSE IF RiverMark \in entry.has THEN RiverReveal(entry)
  ELSE IF ShowsMark \in entry.has THEN Showdown(entry)
  ELSE PlayerActions(entry, timestamp)

\* parse_log_file, one turn of "for row in rows": the row's 'at' column is
\* taken to be the row's position in the sorted file.
ProcessRow ==
  /\ pc = "reading"
  /\ Len(rows) < MaxLen
  /\ \E entry \in Entries :
       /\ rows' = Append(rows, entry)
       /\ process_entry(entry, Len(rows) + 1)
  /\ pc' = pc
  /\ UNCHANGED analyzer_vars

\* parse_log_file after the loop: "Finalize the last hand if exists".
Finalize ==
  /\ pc = "reading"
  /\ hands' = IF current_hand # NoHand THEN Append(hands, current_hand) ELSE hands
  /\ pc' = "done"
  /\ UNCHANGED <<current_hand, current_stage, all_players, heap, rows>>
  /\ UNCHANGED analyzer_vars

Next == ProcessRow \/ Finalize

Spec == Init /\ [][Next]_vars

(***************************************************************************)
(* Vocabulary of the properties.                                           *)
(***************************************************************************)
StageRank(stage) ==
  CASE stage = "preflop" -> 0 [] stage = "flop" -> 1
    [] stage = "turn" -> 2 [] stage = "river" -> 3

\* This step processed one more row; NewRow is that row.
RowProcessed == Len(rows') = Len(rows) + 1
NewRow == rows'[Len(rows')]

IsStart(entry) == StartMark \in entry.has
IsWellFormedStart(entry) == IsStart(entry) /\ entry.hand_match # NoneV

StageLists(hand) ==
  << <<"preflop", hand.preflop_actions>>, <<"flop", hand.flop_actions>>,
     <<"turn", hand.turn_actions>>, <<"river", hand.river_actions>> >>

AllActions(hand) ==
  hand.preflop_actions \o hand.flop_actions \o hand.turn_actions \o hand.river_actions

NoDuplicates(s) == \A i, j \in DOMAIN s : i # j => s[i] # s[j]

\* The kinds that become an Action, and the kind an action phrase stands for.
ActionKinds == {"blind", "raise", "bet", "call", "all-in", "fold", "check"}
KindOfPhrase(phrase) ==
  LET i == CHOOSE k \in DOMAIN action_patterns : action_patterns[k].phrase = phrase
  IN  action_patterns[i].type

\* C1 (stated as claimed): each hand-start marker starts a new, distinct
\* Hand record: the output never holds the same Hand record twice, and while
\* rows are being read the current hand is not one that a hand-start marker
\* already appended to the output.
C1_EachMarkerOneDistinctHand ==
  /\ NoDuplicates(hands)
  /\ (pc = "reading" /\ current_hand # NoHand) => current_hand \notin Range(hands)

\* C2 (stated as claimed): after end of stream the number of Hands in the
\* output equals the number of hand-start marker entries of the stream.
C2_HandCountEqualsMarkerCount ==
  pc = "done" => Len(hands) = Cardinality({i \in DOMAIN rows : IsStart(rows[i])})

\* C3 (stated as claimed): once a Hand is in the output sequence, no later
\* step changes any of its fields.
C3_SealedHandImmutable ==
  [][\A i \in DOMAIN hands : heap'[hands[i]] = heap[hands[i]]]_vars

\* C4 (stated as claimed): right after any hand-start entry the assembler is
\* in preflop with a newly created current Hand whose four action lists and
\* showdown list are empty, and a Hand that was in progress has been appended
\* to the output.
C4_StartEntersPreflopWithNewHand ==
  [][(RowProcessed /\ IsStart(NewRow)) =>
       /\ current_hand' # NoHand
       /\ current_hand' \notin DOMAIN heap
       /\ current_stage' = "preflop"
       /\ AllActions(heap'[current_hand']) = <<>>
       /\ heap'[current_hand'].showdown = <<>>
       /\ (current_hand # NoHand => hands' = Append(hands, current_hand))]_vars

\* C5 (stated as claimed): between two hand-start markers the current stage
\* never changes to an earlier stage.
C5_StageNeverMovesBack ==
  [][(RowProcessed /\ ~IsStart(NewRow)) =>
       StageRank(current_stage') >= StageRank(current_stage)]_vars

\* C5 (amended): the current stage changes only when an entry holding a
\* hand-start, flop, turn or river marker is processed, and then becomes
\* that marker's stage whatever the stage was; so it moves to an earlier
\* stage exactly when a reveal of an earlier stage is processed.
C5_StageFollowsReveals ==
  [][current_stage' # current_stage =>
       /\ RowProcessed
       /\ current_hand' # NoHand
       /\ \/ current_stage' = "preflop" /\ IsWellFormedStart(NewRow)
          \/ current_stage' = "flop" /\ ~IsStart(NewRow) /\ FlopMark \in NewRow.has
          \/ current_stage' = "turn" /\ ~IsStart(NewRow) /\ TurnMark \in NewRow.has
          \/ current_stage' = "river" /\ ~IsStart(NewRow) /\ RiverMark \in NewRow.has]_vars

\* C5 witness: a turn reveal, then a flop reveal, both in one hand: the stage
\* is back at flop.
C5_Witness ==
  /\ current_hand # NoHand
  /\ current_stage = "flop"
  /\ \E i, j \in DOMAIN rows :
       /\ i < j /\ j = Len(rows)
       /\ rows[i] = ETurn /\ rows[j] = EFlop
       /\ heap[current_hand].turn_card # NoneV

\* C6: every Action in a Hand's list for stage S has stage S, and each list
\* is in the order the entries were processed (rising row positions).
C6_ActionsInTheirStageList ==
  \A h \in DOMAIN heap :
    \A k \in 1..4 :
      LET S == StageLists(heap[h])[k][1]
          list == StageLists(heap[h])[k][2]
      IN  /\ \A i \in DOMAIN list : list[i].stage = S
          /\ \A i, j \in DOMAIN list : i < j => list[i].timestamp < list[j].timestamp

\* C6 witness: a hand whose flop list has received an action, after the end
\* of the stream.
C6_Witness ==
  /\ pc = "done"
  /\ \E k \in DOMAIN hands : heap[hands[k]].flop_actions # <<>>

\* C7: while no hand is being assembled, every entry other than a hand-start
\* marker leaves the output sequence, the current hand (none), the current
\* stage and the Hand records unchanged.
C7_OrphanedEntriesDiscarded ==
  [][(RowProcessed /\ current_hand = NoHand /\ ~IsStart(NewRow)) =>
       UNCHANGED <<hands, current_hand, current_stage, heap>>]_vars

\* C7 witness: a reveal and a player action were processed with no hand.
C7_Witness ==
  /\ current_hand = NoHand
  /\ \E i, j \in DOMAIN rows :
       /\ rows[i].has \cap {FlopMark, TurnMark, RiverMark} # {}
       /\ rows[j].has = {} /\ rows[j].clauses # <<>>

\* C8 (stated as claimed): while a hand is being assembled, an entry with one
\* action phrase (blind post, raise, bet, call, all-in, fold, check) and no
\* integer appends exactly one Action, of the phrase's kind, with the current
\* stage and no amount.
C8_PhraseWithoutAmountAppends ==
  [][(/\ RowProcessed
      /\ current_hand # NoHand
      /\ NewRow.has = {}
      /\ Len(NewRow.clauses) = 1
      /\ NewRow.clauses[1].digits = NoneV
      /\ KindOfPhrase(NewRow.clauses[1].phrase) \in ActionKinds) =>
       LET before == heap[current_hand]
           after == heap'[current_hand]
       IN  /\ Len(AllActions(after)) = Len(AllActions(before)) + 1
           /\ \E a \in Range(AllActions(after)) :
                /\ a.timestamp = Len(rows')
                /\ a.action = KindOfPhrase(NewRow.clauses[1].phrase)
                /\ a.stage = current_stage
                /\ a.amount = NoneV]_vars

\* An entry that reaches the action patterns and matches one of an Action
\* kind (blind, raise, bet, call, all-in, fold, check).
YieldsAction(entry) ==
  /\ entry.has = {}
  /\ \E c \in Range(entry.clauses) :
       /\ KindOfPhrase(c.phrase) \in ActionKinds
       /\ c.digits # NoneV \/ c.phrase \in {"folds", "checks"}

\* C9: no entry leaves the assembler stuck (every entry can be processed in
\* every state), and at end of stream every well-formed hand-start marker has
\* its own Hand in the output, holding an Action for each action entry that
\* follows the marker up to the next hand-start marker.
C9_LaterHandsStillAssembled ==
  /\ (pc = "reading" /\ Len(rows) < MaxLen) =>
       \A e \in Entries :
         ENABLED (rows' = Append(rows, e) /\ process_entry(e, Len(rows) + 1) /\ pc' = pc)
  /\ \A h1, h2 \in DOMAIN heap : heap[h1].timestamp = heap[h2].timestamp => h1 = h2
  /\ pc = "done" =>
       \A i \in DOMAIN rows :
         IsWellFormedStart(rows[i]) =>
           \E k \in DOMAIN hands :
             /\ heap[hands[k]].timestamp = i
             /\ \A j \in (i + 1)..Len(rows) :
                  (YieldsAction(rows[j]) /\ \A m \in (i + 1)..j : ~IsStart(rows[m])) =>
                    \E a \in Range(AllActions(heap[hands[k]])) : a.timestamp = j

\* C9 witness: end of stream after a hand-start marker without fields or an
\* unrecognized entry, then a well-formed marker, then an action entry.
C9_Witness ==
  /\ pc = "done"
  /\ \E i, j, k \in DOMAIN rows :
       /\ i < j /\ j < k
       /\ rows[i] \in {EStartNoDealer, EOther, EBetNoAmount}
       /\ IsWellFormedStart(rows[j])
       /\ YieldsAction(rows[k])

\* C10 (stated as claimed): in every Hand the flop holds at most 3 cards and
\* the turn and the river hold 0 or 1 card each.
C10_CommunityCardCounts ==
  \A h \in DOMAIN heap :
    /\ heap[h].flop_cards # NoneV => Len(heap[h].flop_cards[1]) <= 3
    /\ Len(heap[h].turn_card) <= 1
    /\ Len(heap[h].river_card) <= 1

(***************************************************************************)
(* action_analyzer.py: ActionAnalyzer.  The analyzer reads the hands of    *)
(* parsed_hands.json; an action is the dict actions_to_dict wrote, to      *)
(* which the tagger adds the key 'tags'.  tags = NoneV stands for a dict   *)
(* without that key.                                                       *)
(***************************************************************************)
ActionDict(player, action, amount, timestamp, stage) ==
  [player |-> player, action |-> action, amount |-> amount,
   timestamp |-> timestamp, stage |-> stage, tags |-> NoneV]

\* ActionTag(tag, description, confidence = 1.0) as the dict the tagger
\* stores.  The descriptions are Chinese text in the source; each is written
\* here as its English gloss.
ActionTag(tag, description) ==
  [tag |-> tag, description |-> description, confidence |-> 1]

\* "if action['amount']": None and 0 are false.
Truthy(amount) == amount # NoneV /\ amount[1] # 0

\* The bound of "action['amount'] <= 100".
LimpLimit == 100

\* self.action_symbols
action_symbols ==
  [check |-> <<"X">>, bet |-> <<"B">>, call |-> <<"C">>, fold |-> <<"F">>,
   raise |-> <<"R">>, all_in |-> <<"A">>, blind |-> <<>>]

\* The key under which an action type is looked up in action_symbols.
SymbolKey(action_type) == IF action_type = "all-in" THEN "all_in" ELSE action_type

\* Mutant of RaiseTags: the third raise is named like the second.
RaiseTagsThirdAsSecond(preflop_raise_count) ==
  IF preflop_raise_count = 1 THEN <<ActionTag("open", "first raise opens the pot")>>
  ELSE IF preflop_raise_count \in {2, 3} THEN <<ActionTag("3bet", "three-bet")>>
  ELSE <<ActionTag(ToString(preflop_raise_count + 1) \o "bet",
                   ToString(preflop_raise_count + 1) \o "-bet")>>

\* _add_action_tags, the branch of a preflop raise: the tag list for the
\* raise that brought the counter to preflop_raise_count.
RaiseTags(preflop_raise_count) ==
  IF preflop_raise_count = 1 THEN <<ActionTag("open", "first raise opens the pot")>>
  ELSE IF preflop_raise_count = 2 THEN <<ActionTag("3bet", "three-bet")>>
  ELSE IF preflop_raise_count = 3 THEN <<ActionTag("4bet", "four-bet")>>
  ELSE IF preflop_raise_count >= 4
  THEN <<ActionTag(ToString(preflop_raise_count + 1) \o "bet",
                   ToString(preflop_raise_count + 1) \o "-bet")>>
  ELSE <<>>

\* Mutant of CallTags: the position of the call is not looked at.
CallTagsAnyPosition(action, i) ==
  IF Truthy(action.amount) /\ action.amount[1] <= LimpLimit
  THEN <<ActionTag("limp", "limp (flat call of the big blind)")>>
  ELSE <<>>

\* _add_action_tags, the branch "elif action['action'] == 'call' and i == 0";
\* i is the action's index in non_blind_actions, counted from 0.
CallTags(action, i) ==
  IF i = 0 /\ Truthy(action.amount) /\ action.amount[1] <= LimpLimit
  THEN <<ActionTag("limp", "limp (flat call of the big blind)")>>
  ELSE <<>>

\* Mutant of SetTags: the new tags are added to the ones the action has.
SetTagsAccumulating(action, tags) ==
  [action EXCEPT !.tags = IF @ = NoneV THEN Some(tags) ELSE Some(@[1] \o tags)]

\* "action['tags'] = [...]": the key is assigned, whatever it held.
SetTags(action, tags) == [action EXCEPT !.tags = Some(tags)]

\* Mutant of PreflopTurn: a blind is handled like any other preflop action.
PreflopTurnTagsBlinds(st, action) ==
  LET is_raise == action.action = "raise"
      count == IF is_raise THEN st.preflop_raise_count + 1
               ELSE st.preflop_raise_count
      tags == IF is_raise THEN RaiseTags(count)
              ELSE IF action.action = "call" THEN CallTags(action, st.i)
              ELSE <<>>
  IN  [actions |-> Append(st.actions, SetTags(action, tags)),
       i |-> st.i + 1,
       preflop_raise_count |-> count,
       preflop_aggressor |-> IF is_raise /\ count = 1 THEN Some(action.player)
                             ELSE st.preflop_aggressor]

\* Mutant of PreflopTurn: the preflop list becomes non_blind_actions, the
\* blinds are dropped from the hand.
PreflopTurnDropsBlinds(st, action) ==
  IF action.action = "blind"
  THEN st
  ELSE LET is_raise == action.action = "raise"
           count == IF is_raise THEN st.preflop_raise_count + 1
                    ELSE st.preflop_raise_count
           tags == IF is_raise THEN RaiseTags(count)
                   ELSE IF action.action = "call" THEN CallTags(action, st.i)
                   ELSE <<>>
       IN  [actions |-> Append(st.actions, SetTags(action, tags)),
            i |-> st.i + 1,
            preflop_raise_count |-> count,
            preflop_aggressor |-> IF is_raise /\ count = 1 THEN Some(action.player)
                                  ELSE st.preflop_aggressor]

\* _add_action_tags, one preflop action.  st holds the loop's state: the
\* actions handled so far, the index i of the next entry of
\* non_blind_actions, preflop_raise_count and preflop_aggressor.  A blind is
\* not in non_blind_actions: it is left as it is and i does not move.
PreflopTurn(st, action) ==
  IF action.action = "blind"
  THEN [st EXCEPT !.actions = Append(@, action)]
  ELSE LET is_raise == action.action = "raise"
           count == IF is_raise THEN st.preflop_raise_count + 1
                    ELSE st.preflop_raise_count
           tags == IF is_raise THEN RaiseTags(count)
                   ELSE IF action.action = "call" THEN CallTags(action, st.i)
                   ELSE <<>>
       IN  [actions |-> Append(st.actions, SetTags(action, tags)),
            i |-> st.i + 1,
            preflop_raise_count |-> count,
            preflop_aggressor |-> IF is_raise /\ count = 1 THEN Some(action.player)
                                  ELSE st.preflop_aggressor]

RECURSIVE PreflopLoop(_, _)
PreflopLoop(actions, st) ==
  IF actions = <<>> THEN st
  ELSE PreflopLoop(Tail(actions), PreflopTurn(st, Head(actions)))

\* _add_action_tags, the preflop part: the loop started with
\* preflop_aggressor = None and preflop_raise_count = 0.
TagPreflop(preflop_actions) ==
  PreflopLoop(preflop_actions,
              [actions |-> <<>>, i |-> 0, preflop_raise_count |-> 0,
               preflop_aggressor |-> NoneV])

\* Mutant of FirstBetTags: the opening bet is a cbet whoever makes it.
FirstBetTagsAlwaysCbet(player, preflop_aggressor) ==
  <<ActionTag("cbet", "continuation bet")>>

\* _add_action_tags, a bet at index 0 of a postflop stage.
FirstBetTags(player, preflop_aggressor) ==
  IF Some(player) = preflop_aggressor
  THEN <<ActionTag("cbet", "continuation bet")>>
  ELSE <<ActionTag("donk", "donk bet")>>

\* Mutant of StageTurn: a check-raise leaves the player among the candidates.
StageTurnKeepsCandidate(st, action, preflop_aggressor) ==
  LET candidate == action.player \in st.check_raise_candidates
      later_bet == action.action = "bet" /\ st.i # 0
      tags == IF action.action = "bet" /\ st.i = 0
              THEN FirstBetTags(action.player, preflop_aggressor)
              ELSE IF (later_bet \/ action.action = "raise") /\ candidate
              THEN <<ActionTag("check-raise", "check-raise")>>
              ELSE <<>>
  IN  [actions |-> Append(st.actions, SetTags(action, tags)),
       i |-> st.i + 1,
       check_raise_candidates |->
         IF action.action = "check"
         THEN st.check_raise_candidates \cup {action.player}
         ELSE st.check_raise_candidates]

\* _add_action_tags, one action of a postflop stage.  st holds the actions
\* handled so far, the index i and check_raise_candidates (a dict in the
\* source; only its keys are ever read).
StageTurn(st, action, preflop_aggressor) ==
  LET candidate == action.player \in st.check_raise_candidates
      later_bet == action.action = "bet" /\ st.i # 0
      tags == IF action.action = "bet" /\ st.i = 0
              THEN FirstBetTags(action.player, preflop_aggressor)
              ELSE IF (later_bet \/ action.action = "raise") /\ candidate
              THEN <<ActionTag("check-raise", "check-raise")>>
              ELSE <<>>
  IN  [actions |-> Append(st.actions, SetTags(action, tags)),
       i |-> st.i + 1,
       check_raise_candidates |->
         IF (later_bet \/ action.action = "raise") /\ candidate
         THEN st.check_raise_candidates \ {action.player}
         ELSE IF action.action = "check"
         THEN st.check_raise_candidates \cup {action.player}
         ELSE st.check_raise_candidates]

RECURSIVE StageLoop(_, _, _)
StageLoop(actions, st, preflop_aggressor) ==
  IF actions = <<>> THEN st
  ELSE StageLoop(Tail(actions), StageTurn(st, Head(actions), preflop_aggressor),
                 preflop_aggressor)

\* _add_action_tags, one stage of "for stage in ['flop', 'turn', 'river']":
\* check_raise_candidates starts empty in each stage.
TagStage(stage_actions, preflop_aggressor) ==
  StageLoop(stage_actions,
            [actions |-> <<>>, i |-> 0, check_raise_candidates |-> {}],
            preflop_aggressor).actions

\* Mutant of add_action_tags: check_raise_candidates is created once and
\* carried from the flop to the turn and the river.
add_action_tagsCandidatesCarried(hand) ==
  LET preflop == TagPreflop(hand.preflop_actions)
      Start(candidates) ==
        [actions |-> <<>>, i |-> 0, check_raise_candidates |-> candidates]
      flop == StageLoop(hand.flop_actions, Start({}), preflop.preflop_aggressor)
      turn == StageLoop(hand.turn_actions, Start(flop.check_raise_candidates),
                        preflop.preflop_aggressor)
      river == StageLoop(hand.river_actions, Start(turn.check_raise_candidates),
                         preflop.preflop_aggressor)
  IN  [hand EXCEPT !.preflop_actions = preflop.actions,
                   !.flop_actions = flop.actions,
                   !.turn_actions = turn.actions,
                   !.river_actions = river.actions]

\* _add_action_tags(hand): the action dicts of the four lists are changed in
\* place; every other key of the hand is left alone.
add_action_tags(hand) ==
  LET preflop == TagPreflop(hand.preflop_actions)
  IN  [hand EXCEPT !.preflop_actions = preflop.actions,
                   !.flop_actions = TagStage(@, preflop.preflop_aggressor),
                   !.turn_actions = TagStage(@, preflop.preflop_aggressor),
                   !.river_actions = TagStage(@, preflop.preflop_aggressor)]

\* The four action lists of a hand dict, in the order the analyzer's loops
\* "for stage in ['preflop', 'flop', 'turn', 'river']" visit them.
StageActions(hand) ==
  <<hand.preflop_actions, hand.flop_actions, hand.turn_actions, hand.river_actions>>

\* self.action_symbols.get(action['action'], '?'): a string is modelled as
\* the sequence of its characters.
Symbol(action_type) ==
  IF SymbolKey(action_type) \in DOMAIN action_symbols
  THEN action_symbols[SymbolKey(action_type)]
  ELSE <<"?">>

RECURSIVE Concat(_)
\* ''.join(strings)
Concat(strings) ==
  IF strings = <<>> THEN <<>> ELSE Head(strings) \o Concat(Tail(strings))

\* '/'.join(line_parts)
Join(line_parts) ==
  Concat([k \in 1..Len(line_parts) |->
            IF k = 1 THEN line_parts[k] ELSE <<"/">> \o line_parts[k]])

\* Mutant of StageParts: a stage the player did not act in gives an empty part.
StagePartsEveryStage(stage_actions, player) ==
  LET player_actions ==
        SelectSeq(stage_actions,
                  LAMBDA a : a.player = player /\ a.action # "blind")
  IN  <<Concat([k \in 1..Len(player_actions) |-> Symbol(player_actions[k].action)])>>

\* _generate_action_lines, one stage of one player: what the stage adds to
\* line_parts.  The "elif stage_actions" branch changes nothing.
StageParts(stage_actions, player) ==
  LET player_actions ==
        SelectSeq(stage_actions,
                  LAMBDA a : a.player = player /\ a.action # "blind")
      stage_symbols ==
        Concat(SelectSeq([k \in 1..Len(player_actions) |->
                            Symbol(player_actions[k].action)],
                         LAMBDA symbol : symbol # <<>>))
  IN  IF player_actions # <<>> /\ stage_symbols # <<>>
      THEN <<stage_symbols>> ELSE <<>>

\* _generate_action_lines: line_parts of one player after the four stages.
LineParts(hand, player) ==
  StageParts(hand.preflop_actions, player) \o StageParts(hand.flop_actions, player)
    \o StageParts(hand.turn_actions, player) \o StageParts(hand.river_actions, player)

\* _generate_action_lines: the set all_players, the players of the actions
\* that are not blinds.
LinePlayers(hand) ==
  {a.player : a \in {a \in UNION {Range(StageActions(hand)[k]) : k \in 1..4} :
                       a.action # "blind"}}

\* The orders in which "for player in all_players" may visit a set: the
\* iteration order of a Python set of strings is fixed by neither the
\* language nor the input (it follows the process's string hash seed).
IterationOrders(set) ==
  {order \in [1..Cardinality(set) -> set] : Range(order) = set}

\* _generate_action_lines(hand), with the set visited in the given order.
\* The result is a dict: its entries are listed in insertion order.
generate_action_lines(hand, order) ==
  [k \in 1..Len(order) |->
     [player |-> order[k],
      line |-> IF LineParts(hand, order[k]) # <<>>
               THEN Join(LineParts(hand, order[k])) ELSE <<>>]]

\* action.get('tags', []), as the list of the tag names.
TagNames(action) ==
  IF action.tags = NoneV THEN <<>>
  ELSE [k \in 1..Len(action.tags[1]) |-> action.tags[1][k].tag]

\* The player of the first of the actions found by a search, None if it
\* found none.
FirstPlayer(found) ==
  IF found = <<>> THEN NoneV ELSE Some(found[1].player)

\* Mutant of analyze_hand_summary: preflop_aggressor is the player of the
\* last preflop raise.
analyze_hand_summaryLastRaiser(hand) ==
  LET IsAggression(a) == a.action \in {"bet", "raise"}
      on_flop == FirstPlayer(SelectSeq(hand.flop_actions, IsAggression))
      on_turn == FirstPlayer(SelectSeq(hand.turn_actions, IsAggression))
      on_river == FirstPlayer(SelectSeq(hand.river_actions, IsAggression))
      calls == SelectSeq(hand.preflop_actions, LAMBDA a : a.action = "call")
      raises == SelectSeq(hand.preflop_actions, LAMBDA a : a.action = "raise")
      stages == <<"preflop", "flop", "turn", "river">>
  IN  [preflop_aggressor |->
         IF raises = <<>> THEN NoneV ELSE Some(raises[Len(raises)].player),
       preflop_callers |-> [k \in 1..Len(calls) |-> calls[k].player],
       postflop_aggressor |->
         IF on_flop # NoneV THEN on_flop
         ELSE IF on_turn # NoneV THEN on_turn ELSE on_river,
       showdown_players |-> Len(hand.showdown),
       total_pot |-> hand.pot_size,
       winner |-> hand.winner,
       stages_played |->
         SelectSeq(stages, LAMBDA stage :
                     \E k \in 1..4 : stages[k] = stage /\ StageActions(hand)[k] # <<>>)]

\* _analyze_hand_summary(hand)
analyze_hand_summary(hand) ==
  LET IsAggression(a) == a.action \in {"bet", "raise"}
      on_flop == FirstPlayer(SelectSeq(hand.flop_actions, IsAggression))
      on_turn == FirstPlayer(SelectSeq(hand.turn_actions, IsAggression))
      on_river == FirstPlayer(SelectSeq(hand.river_actions, IsAggression))
      calls == SelectSeq(hand.preflop_actions, LAMBDA a : a.action = "call")
      stages == <<"preflop", "flop", "turn", "river">>
  IN  [preflop_aggressor |->
         FirstPlayer(SelectSeq(hand.preflop_actions,
                               LAMBDA a : a.action = "raise"
                                          /\ "open" \in Range(TagNames(a)))),
       preflop_callers |-> [k \in 1..Len(calls) |-> calls[k].player],
       postflop_aggressor |->
         IF on_flop # NoneV THEN on_flop
         ELSE IF on_turn # NoneV THEN on_turn ELSE on_river,
       showdown_players |-> Len(hand.showdown),
       total_pot |-> hand.pot_size,
       winner |-> hand.winner,
       stages_played |->
         SelectSeq(stages, LAMBDA stage :
                     \E k \in 1..4 : stages[k] = stage /\ StageActions(hand)[k] # <<>>)]

\* analyze_hand_actions(hand): a copy of the hand with its actions tagged and
\* the keys 'action_lines' and 'analysis' set (added, or replaced when the
\* hand already has them).
analyze_hand_actions(hand, order) ==
  LET tagged == add_action_tags(hand)
  IN  [key \in DOMAIN hand \cup {"action_lines", "analysis"} |->
         IF key = "action_lines" THEN generate_action_lines(tagged, order)
         ELSE IF key = "analysis" THEN analyze_hand_summary(tagged)
         ELSE tagged[key]]

\* "enhanced_hand = hand.copy()" is a shallow copy: the action dicts that the
\* tagger changes are the ones every earlier copy of the hand holds too.
SharingActions(holder, result) ==
  IF holder = NoneV THEN NoneV
  ELSE Some([holder[1] EXCEPT !.preflop_actions = result.preflop_actions,
                              !.flop_actions = result.flop_actions,
                              !.turn_actions = result.turn_actions,
                              !.river_actions = result.river_actions])

\* process_parsed_hands_file, one turn of "for hand in hands".
AnalyzeHand ==
  /\ input_hand # NoneV
  /\ enhanced_hand = NoneV
  /\ \E order \in IterationOrders(LinePlayers(input_hand[1])) :
       LET result == analyze_hand_actions(input_hand[1], order)
       IN  /\ enhanced_hand' = Some(result)
           /\ input_hand' = SharingActions(input_hand, result)
  /\ UNCHANGED <<hand_dict, rerun_hand, second_run>>
  /\ UNCHANGED parser_vars

\* analyze_hand_actions called on the hand it returned.
AnalyzeAgain ==
  /\ enhanced_hand # NoneV
  /\ rerun_hand = NoneV
  /\ \E order \in IterationOrders(LinePlayers(enhanced_hand[1])) :
       LET result == analyze_hand_actions(enhanced_hand[1], order)
       IN  /\ rerun_hand' = Some(result)
           /\ enhanced_hand' = SharingActions(enhanced_hand, result)
           /\ input_hand' = SharingActions(input_hand, result)
  /\ UNCHANGED <<hand_dict, second_run>>
  /\ UNCHANGED parser_vars

\* The pipeline run once more over the same parsed_hands.json: json.load
\* builds the hand anew from the file.
AnalyzeSecondRun ==
  /\ hand_dict # NoneV
  /\ second_run = NoneV
  /\ \E order \in IterationOrders(LinePlayers(hand_dict[1])) :
       second_run' = Some(analyze_hand_actions(hand_dict[1], order))
  /\ UNCHANGED <<hand_dict, input_hand, enhanced_hand, rerun_hand>>
  /\ UNCHANGED parser_vars

(***************************************************************************)
(* The hands given to the analyzer.  A move is an action before it is put  *)
(* in a stage list; the amounts are those the log gave (none for a check   *)
(* or a fold).                                                             *)
(***************************************************************************)
MaxPre == 4
MaxPost == 3
MaxStage == 4
MaxLine == 3
MaxRun == 2

Move(player, action, amount) ==
  [player |-> player, action |-> action, amount |-> amount]

\* actions_to_dict: the moves as the action dicts of one stage list; the
\* timestamps go on from the offset.
Staged(moves, stage, offset) ==
  [k \in 1..Len(moves) |->
     ActionDict(moves[k].player, moves[k].action, moves[k].amount, offset + k, stage)]

\* export_to_json, hand_dict: the keys the analyzer reads, for a hand without
\* showdown or pot collection.
HandDict(preflop, flop, turn, river) ==
  [hand_number |-> 1,
   preflop_actions |-> preflop, flop_actions |-> flop,
   turn_actions |-> turn, river_actions |-> river,
   showdown |-> <<>>, pot_size |-> 0, winner |-> NoneV]

\* The hand whose moves are cut into the four stages after c1, c2 and c3.
HandOfMoves(moves, c1, c2, c3) ==
  HandDict(Staged(SubSeq(moves, 1, c1), "preflop", 0),
           Staged(SubSeq(moves, c1 + 1, c2), "flop", c1),
           Staged(SubSeq(moves, c2 + 1, c3), "turn", c2),
           Staged(SubSeq(moves, c3 + 1, Len(moves)), "river", c3))

SeqsUpTo(set, n) == UNION {[1..m -> set] : m \in 0..n}

\* The analyzer is about to read the given hand from parsed_hands.json.
Loaded(hand) ==
  /\ ParserInit
  /\ hand_dict = Some(hand)
  /\ input_hand = Some(hand)
  /\ enhanced_hand = NoneV
  /\ rerun_hand = NoneV
  /\ second_run = NoneV

PreflopMoves ==
  {Move("Alice", "raise", Some(300)), Move("b", "raise", Some(300)),
   Move("Alice", "call", Some(100)), Move("Alice", "call", Some(101)),
   Move("b", "call", Some(0)), Move("b", "call", Some(50)),
   Move("b", "blind", Some(10)), Move("b", "fold", NoneV),
   Move("Alice", "check", NoneV), Move("b", "bet", Some(40)),
   Move("Alice", "all-in", Some(500))}

\* Hands of at most MaxPre moves: any preflop moves, and possibly one call on
\* the flop.
InitPreflop ==
  \E moves \in SeqsUpTo(PreflopMoves, MaxPre) :
    \E flop \in {<<>>, <<Move("b", "call", Some(50))>>} :
      /\ Len(moves) + Len(flop) <= MaxPre
      /\ Loaded(HandOfMoves(moves \o flop, Len(moves),
                            Len(moves) + Len(flop), Len(moves) + Len(flop)))

SpecPreflop == InitPreflop /\ [][AnalyzeHand]_vars

PreflopOpenings ==
  {<<>>, <<Move("Alice", "raise", Some(300))>>, <<Move("b", "raise", Some(300))>>,
   <<Move("Alice", "call", Some(50))>>,
   <<Move("Alice", "raise", Some(300)), Move("b", "raise", Some(900))>>}

PostflopMoves ==
  {Move("Alice", "check", NoneV), Move("b", "check", NoneV),
   Move("Alice", "bet", Some(40)), Move("b", "bet", Some(40)),
   Move("Alice", "raise", Some(120)), Move("b", "raise", Some(120)),
   Move("b", "call", Some(40))}

\* Hands with one of a few preflop openings and any postflop moves, cut into
\* flop, turn and river at any two points.
InitPostflop ==
  \E opening \in PreflopOpenings, moves \in SeqsUpTo(PostflopMoves, MaxPost) :
    \E c2 \in 0..Len(moves) : \E c3 \in c2..Len(moves) :
      Loaded(HandOfMoves(opening \o moves, Len(opening),
                         Len(opening) + c2, Len(opening) + c3))

SpecPostflop == InitPostflop /\ [][AnalyzeHand]_vars

StageMoves ==
  {Move("Alice", "check", NoneV), Move("b", "check", NoneV),
   Move("Alice", "bet", Some(40)), Move("b", "bet", Some(40)),
   Move("Alice", "raise", Some(120)), Move("Alice", "call", Some(40))}

\* Hands without preflop actions: up to MaxStage postflop moves, cut into
\* flop, turn and river at any two points.
InitStages ==
  \E moves \in SeqsUpTo(StageMoves, MaxStage) :
    \E c2 \in 0..Len(moves) : \E c3 \in c2..Len(moves) :
      Loaded(HandOfMoves(moves, 0, c2, c3))

SpecStages == InitStages /\ [][AnalyzeHand]_vars

LineMoves ==
  {Move("Alice", "blind", Some(10)), Move("Alice", "check", NoneV),
   Move("Alice", "bet", Some(40)), Move("Alice", "call", Some(40)),
   Move("Alice", "raise", Some(120)), Move("Alice", "fold", NoneV),
   Move("Alice", "all-in", Some(500)),
   Move("b", "blind", Some(20)), Move("b", "call", Some(20))}

\* Hands of any moves of all the action types, cut into the four stages at
\* any three points.
InitLines ==
  \E moves \in SeqsUpTo(LineMoves, MaxLine) :
    \E c1 \in 0..Len(moves) : \E c2 \in c1..Len(moves) : \E c3 \in c2..Len(moves) :
      Loaded(HandOfMoves(moves, c1, c2, c3))

SpecLines == InitLines /\ [][AnalyzeHand]_vars

\* The same hands, shorter, for the analyzer run more than once.
InitRuns ==
  \E moves \in SeqsUpTo(LineMoves, MaxRun) :
    \E c1 \in 0..Len(moves) : \E c2 \in c1..Len(moves) : \E c3 \in c2..Len(moves) :
      Loaded(HandOfMoves(moves, c1, c2, c3))

NextRuns == AnalyzeHand \/ AnalyzeAgain \/ AnalyzeSecondRun

SpecRuns == InitRuns /\ [][NextRuns]_vars

(***************************************************************************)
(* Vocabulary of the analyzer's properties.                                *)
(***************************************************************************)
\* The analyzer has returned; Enhanced is the hand it returned.
Analyzed == enhanced_hand # NoneV
Enhanced == enhanced_hand[1]

\* The number of raises among the first k actions of the list.
RaisesUpTo(actions, k) == Cardinality({j \in 1..k : actions[j].action = "raise"})

\* The k-th action of the list is the first one that is not a blind.
FirstNonBlind(actions, k) ==
  /\ actions[k].action # "blind"
  /\ \A j \in 1..(k - 1) : actions[j].action = "blind"

HasTag(action, name) == name \in Range(TagNames(action))

\* C11: the K-th raise of the preflop list carries exactly the tag open for
\* K = 1 and (K+1)bet for K >= 2 (3bet, 4bet, 5bet, ...), K counting the
\* raises only, whatever blinds, calls, folds, checks, bets and all-ins stand
\* between them; and the Summary's preflop aggressor is the player of the
\* first raise (none when the list has no raise).
C11_RaiseCounterTags ==
  Analyzed =>
    LET pre == Enhanced.preflop_actions
        raises == {k \in 1..Len(pre) : pre[k].action = "raise"}
    IN  /\ \A k \in raises :
             TagNames(pre[k]) =
               << IF RaisesUpTo(pre, k) = 1 THEN "open"
                  ELSE ToString(RaisesUpTo(pre, k) + 1) \o "bet" >>
        /\ \A k \in raises :
             RaisesUpTo(pre, k) = 1 =>
               Enhanced.analysis.preflop_aggressor = Some(pre[k].player)
        /\ raises = {} => Enhanced.analysis.preflop_aggressor = NoneV

\* C11 witness: a fourth preflop raise, tagged 5bet, in a hand whose
\* aggressor is the player of the first raise.
C11_Witness ==
  /\ Analyzed
  /\ \E k \in 1..Len(Enhanced.preflop_actions) :
       /\ TagNames(Enhanced.preflop_actions[k]) = <<"5bet">>
       /\ Enhanced.analysis.preflop_aggressor = Some(Enhanced.preflop_actions[1].player)

\* C12 as stated: an action carries limp exactly when it is a call, the first
\* non-blind action of the preflop list, with an amount below the limit.
C12_LimpIffFirstCallBelowLimit ==
  Analyzed =>
    \A s \in 1..4 : \A k \in 1..Len(StageActions(Enhanced)[s]) :
      LET action == StageActions(Enhanced)[s][k]
      IN  HasTag(action, "limp") <=>
            /\ s = 1
            /\ action.action = "call"
            /\ FirstNonBlind(Enhanced.preflop_actions, k)
            /\ action.amount # NoneV
            /\ action.amount[1] < LimpLimit

\* C12 amended: an action carries limp exactly when it is a call, the first
\* non-blind action of the preflop list, with an amount that is given, not
\* zero and at most the limit.
C12_LimpIffFirstCallWithinLimit ==
  Analyzed =>
    \A s \in 1..4 : \A k \in 1..Len(StageActions(Enhanced)[s]) :
      LET action == StageActions(Enhanced)[s][k]
      IN  HasTag(action, "limp") <=>
            /\ s = 1
            /\ action.action = "call"
            /\ FirstNonBlind(Enhanced.preflop_actions, k)
            /\ action.amount # NoneV
            /\ action.amount[1] # 0
            /\ action.amount[1] <= LimpLimit

\* C12 witness: after a blind, a call of exactly the limit opens the action
\* and is tagged limp, and a later call is not.
C12_Witness ==
  /\ Analyzed
  /\ Len(Enhanced.preflop_actions) >= 3
  /\ Enhanced.preflop_actions[1].action = "blind"
  /\ Enhanced.preflop_actions[2].amount = Some(LimpLimit)
  /\ TagNames(Enhanced.preflop_actions[2]) = <<"limp">>
  /\ Enhanced.preflop_actions[3].action = "call"
  /\ TagNames(Enhanced.preflop_actions[3]) = <<>>

\* The player of the first raise of the preflop list, if it has a raise.
FirstRaiser(hand) ==
  FirstPlayer(SelectSeq(hand.preflop_actions, LAMBDA a : a.action = "raise"))

AfterOwnCheck(actions, k) ==
  /\ actions[k].action \in {"bet", "raise"}
  /\ \E j \in 1..(k - 1) :
       /\ actions[j].player = actions[k].player
       /\ actions[j].action = "check"
       /\ \A m \in (j + 1)..(k - 1) :
            ~(actions[m].player = actions[k].player
              /\ actions[m].action \in {"bet", "raise"})

\* C14: an action carries check-raise exactly when it is a bet or raise in a
\* postflop stage list by a player who checked earlier in that same list and
\* has not bet or raised since; it then carries nothing else.
C14_CheckRaiseAfterOwnCheck ==
  Analyzed =>
    \A s \in 1..4 : \A k \in 1..Len(StageActions(Enhanced)[s]) :
      LET action == StageActions(Enhanced)[s][k]
      IN  /\ HasTag(action, "check-raise")
               <=> s >= 2 /\ AfterOwnCheck(StageActions(Enhanced)[s], k)
          /\ HasTag(action, "check-raise") => TagNames(action) = <<"check-raise">>

\* C14 witness: one player checks, raises (tagged check-raise), bets again
\* (not tagged) and acts a fourth time, all in one stage list.
C14_Witness ==
  /\ Analyzed
  /\ \E s \in 2..4 :
       LET actions == StageActions(Enhanced)[s]
       IN  /\ Len(actions) = 4
           /\ \A k \in 1..4 : actions[k].player = actions[1].player
           /\ actions[1].action = "check"
           /\ actions[2].action = "raise"
           /\ TagNames(actions[2]) = <<"check-raise">>
           /\ actions[3].action = "bet"
           /\ TagNames(actions[3]) = <<>>

\* C15: after tagging, no action carries more than one tag; a blind, fold,
\* check or all-in carries none and a call carries none or limp alone; and a
\* blind of the preflop list is not touched by the tagger at all: it is the
\* action dict of the input, without a tag list.
C15_AtMostOneTag ==
  Analyzed =>
    \A s \in 1..4 : \A k \in 1..Len(StageActions(Enhanced)[s]) :
      LET action == StageActions(Enhanced)[s][k]
      IN  /\ Len(TagNames(action)) <= 1
          /\ action.action \in {"blind", "fold", "check", "all-in"}
             => TagNames(action) = <<>>
          /\ action.action = "call" => TagNames(action) \in {<<>>, <<"limp">>}
          /\ s = 1 /\ action.action = "blind"
             => action = StageActions(hand_dict[1])[s][k]
          /\ ~(s = 1 /\ action.action = "blind") => action.tags # NoneV

\* C15 witness: a preflop blind left without a tag list, a tagged raise after
\* it, and a blind in a later stage list that was given an empty tag list.
C15_Witness ==
  /\ Analyzed
  /\ Len(Enhanced.preflop_actions) = 2
  /\ Enhanced.preflop_actions[1].action = "blind"
  /\ Enhanced.preflop_actions[1].tags = NoneV
  /\ TagNames(Enhanced.preflop_actions[2]) = <<"open">>
  /\ Len(Enhanced.flop_actions) = 1
  /\ Enhanced.flop_actions[1].action = "blind"
  /\ Enhanced.flop_actions[1].tags = Some(<<>>)

\* The action-line map of an enhanced hand as a map: its entries without
\* their order.
LinesAsMap(hand) == {<<entry.player, entry.line>> : entry \in Range(hand.action_lines)}

\* C16: when analyze_hand_actions is run on the hand it returned, the hand
\* it returns has the same four action lists (so the same tags on every
\* action), the same Summary and the same action-line map as the first
\* result had before the second run; and the first result's own actions,
\* which the second run tags in place, carry the same tags as before.
C16_TaggingIdempotent ==
  [][enhanced_hand # NoneV /\ rerun_hand = NoneV /\ rerun_hand' # NoneV =>
       /\ StageActions(rerun_hand'[1]) = StageActions(enhanced_hand[1])
       /\ StageActions(enhanced_hand'[1]) = StageActions(enhanced_hand[1])
       /\ rerun_hand'[1].analysis = enhanced_hand[1].analysis
       /\ LinesAsMap(rerun_hand'[1]) = LinesAsMap(enhanced_hand[1])]_vars

\* C16 witness: the second run has returned a hand that has a check followed
\* by a bet tagged check-raise.
C16_Witness ==
  /\ rerun_hand # NoneV
  /\ \E s \in 2..4 :
       /\ Len(StageActions(rerun_hand[1])[s]) = 2
       /\ StageActions(rerun_hand[1])[s][1].action = "check"
       /\ TagNames(StageActions(rerun_hand[1])[s][2]) = <<"check-raise">>

RECURSIVE Split(_)
\* line.split('/'): the segments between the slashes; an empty line has one
\* segment, the empty one.
Split(line) ==
  IF line = <<>> THEN << <<>> >>
  ELSE IF Head(line) = "/" THEN << <<>> >> \o Split(Tail(line))
  ELSE << <<Head(line)>> \o Split(Tail(line))[1] >> \o Tail(Split(Tail(line)))

\* The symbol of an action type in an action line.
SymbolOf(action_type) ==
  CASE action_type = "check" -> "X" [] action_type = "bet" -> "B"
    [] action_type = "call" -> "C" [] action_type = "fold" -> "F"
    [] action_type = "raise" -> "R" [] action_type = "all-in" -> "A"

\* The non-blind actions of the player in the stage list, in order.
ActsOf(actions, player) ==
  SelectSeq(actions, LAMBDA a : a.player = player /\ a.action # "blind")

\* One segment for each stage in which the player has a non-blind action, in
\* stage order: the symbols of those actions, in order.
Segments(hand, player) ==
  LET staged == [s \in 1..4 |-> ActsOf(StageActions(hand)[s], player)]
      acted == SelectSeq(<<1, 2, 3, 4>>, LAMBDA s : staged[s] # <<>>)
  IN  [i \in 1..Len(acted) |->
         [k \in 1..Len(staged[acted[i]]) |-> SymbolOf(staged[acted[i]][k].action)]]

\* C17: for every entry of the action-line map, splitting the line on "/"
\* gives exactly the player's segments: one for each stage with a non-blind
\* action of the player, in stage order, each the in-order symbols of those
\* actions; other stages give no segment and no placeholder.
C17_LineSegmentsPerActedStage ==
  Analyzed =>
    \A entry \in Range(Enhanced.action_lines) :
      Split(entry.line) = Segments(Enhanced, entry.player)

\* C17 witness: a player raises preflop and folds on the river while the
\* other player acts on the flop; the line is R/F.
C17_Witness ==
  /\ Analyzed
  /\ Enhanced.flop_actions # <<>>
  /\ \E entry \in Range(Enhanced.action_lines) :
       /\ entry.line = <<"R", "/", "F">>
       /\ ActsOf(Enhanced.preflop_actions, entry.player) # <<>>
       /\ ActsOf(Enhanced.flop_actions, entry.player) = <<>>
       /\ ActsOf(Enhanced.river_actions, entry.player) # <<>>

\* Every player of an action of the hand's four stage lists, blinds included.
HandPlayers(hand) ==
  {a.player : a \in UNION {Range(StageActions(hand)[s]) : s \in 1..4}}

\* C18: the action-line map has an entry for every player of the four stage
\* lists, and the entry of a player without a non-blind action is the empty
\* line.
C18_EntryForEveryPlayer ==
  Analyzed =>
    \A player \in HandPlayers(Enhanced) :
      \E entry \in Range(Enhanced.action_lines) :
        /\ entry.player = player
        /\ Segments(Enhanced, player) = <<>> => entry.line = <<>>

\* A row that holds a pot collection.
HoldsCollection(entry) ==
  \E k \in 1..Len(entry.clauses) : entry.clauses[k].phrase = "collected"

\* C19 as stated: in a Hand for which no pot collection was seen, pot_size is
\* 0 and winning_amount is not 0, and no action has the amount 0: an action
\* has no amount exactly when the log gives none (a check or a fold).
C19_OnlyPotSizeDefaultsToZero ==
  \A h \in 1..Len(heap) :
    /\ heap[h].winner = NoneV =>
         heap[h].pot_size = 0 /\ heap[h].winning_amount # 0
    /\ \A k \in 1..Len(AllActions(heap[h])) :
         /\ AllActions(heap[h])[k].amount # Some(0)
         /\ AllActions(heap[h])[k].amount = NoneV
              <=> AllActions(heap[h])[k].action \in {"check", "fold"}

\* C19 amended: a Hand has no winner as long as no pot collection was seen;
\* in a Hand without winner pot_size and winning_amount are both 0; and no
\* action has the amount 0: an action has no amount exactly when the log
\* gives none (a check or a fold).
C19_PotAndWinningAmountDefaultToZero ==
  \A h \in 1..Len(heap) :
    /\ (\A r \in 1..Len(rows) : ~HoldsCollection(rows[r])) => heap[h].winner = NoneV
    /\ heap[h].winner = NoneV =>
         heap[h].pot_size = 0 /\ heap[h].winning_amount = 0
    /\ \A k \in 1..Len(AllActions(heap[h])) :
         /\ AllActions(heap[h])[k].amount # Some(0)
         /\ AllActions(heap[h])[k].amount = NoneV
              <=> AllActions(heap[h])[k].action \in {"check", "fold"}

\* C19 witness: the stream has ended without a pot collection and the output
\* Hand holds a check, which has no amount, and a bet, which has one.
C19_Witness ==
  /\ pc = "done"
  /\ \A r \in 1..Len(rows) : ~HoldsCollection(rows[r])
  /\ \E k \in 1..Len(hands) :
       /\ heap[hands[k]].pot_size = 0
       /\ \E i, j \in 1..Len(AllActions(heap[hands[k]])) :
            /\ AllActions(heap[hands[k]])[i].amount = NoneV
            /\ AllActions(heap[hands[k]])[j].amount # NoneV

\* C20: a second run of the pipeline over the same parsed hand returns the
\* record the first run returned, the entries of the action-line map in the
\* same order.
C20_SecondRunIdentical ==
  enhanced_hand # NoneV /\ second_run # NoneV => second_run = enhanced_hand

(***************************************************************************)
(* Vocabulary for the entry classes of the assembler.                      *)
(***************************************************************************)
\* The markers in the order in which process_entry tests them.
MarkerOrder ==
  <<StartMark, EndMark, StacksMark, FlopMark, TurnMark, RiverMark, ShowsMark>>

HasMarker(entry) == entry.has \cap Range(MarkerOrder) # {}

\* The type of the first action pattern that matches an entry without
\* marker: "none" when no pattern matches or the entry holds a marker.
PatternType(entry) ==
  IF HasMarker(entry) \/ FirstPattern(entry) = 0 THEN "none"
  ELSE action_patterns[FirstPattern(entry)].type

\* The clause of the entry that its first matching pattern matched.
Hit(entry) == PatternMatch(action_patterns[FirstPattern(entry)], entry)[1]

IsCollection(entry) == PatternType(entry) = "win"
IsReturn(entry) == PatternType(entry) = "return"

\* No Hand object has an action list changed, and none is created.
ActionListsUnchanged ==
  /\ Len(heap') = Len(heap)
  /\ \A h \in 1..Len(heap) : StageLists(heap'[h]) = StageLists(heap[h])

\* C21 as stated: while a hand is assembled, a pot collection and an
\* uncalled-bet return each set the Hand's winner, winning_amount and
\* pot_size from the entry, and leave the action lists of every Hand, the
\* current stage, the current hand and the output sequence unchanged.
C21_CollectionAndReturnUpdateResult ==
  [][(RowProcessed /\ current_hand # NoHand
        /\ (IsCollection(NewRow) \/ IsReturn(NewRow))) =>
       /\ heap'[current_hand].winner = Some(clean_player_name(Hit(NewRow).player))
       /\ heap'[current_hand].winning_amount = Hit(NewRow).digits[1]
       /\ heap'[current_hand].pot_size = Hit(NewRow).digits[1]
       /\ ActionListsUnchanged
       /\ UNCHANGED <<hands, current_hand, current_stage>>]_vars

\* C21 amended: while a hand is assembled, a pot collection sets the Hand's
\* winner, winning_amount and pot_size from the entry and changes nothing
\* else of it; an uncalled-bet return changes no Hand at all; and both leave
\* the action lists of every Hand, the current stage, the current hand and
\* the output sequence unchanged.
C21_CollectionUpdatesReturnIgnored ==
  [][(RowProcessed /\ current_hand # NoHand
        /\ (IsCollection(NewRow) \/ IsReturn(NewRow))) =>
       /\ IsCollection(NewRow) =>
            heap' = [heap EXCEPT ![current_hand] =
                       [@ EXCEPT !.winner = Some(clean_player_name(Hit(NewRow).player)),
                                 !.winning_amount = Hit(NewRow).digits[1],
                                 !.pot_size = Hit(NewRow).digits[1]]]
       /\ IsReturn(NewRow) => heap' = heap
       /\ ActionListsUnchanged
       /\ UNCHANGED <<hands, current_hand, current_stage>>]_vars

\* C21 witness: in one hand a pot collection and then an uncalled-bet return
\* were processed; the Hand holds the collection's winner and amount.
C21_Witness ==
  /\ Len(rows) = 3
  /\ current_hand # NoHand
  /\ IsCollection(rows[2])
  /\ IsReturn(rows[3])
  /\ heap[current_hand].winner = Some(clean_player_name(Hit(rows[2]).player))
  /\ heap[current_hand].pot_size = Hit(rows[2]).digits[1]

\* The positions of the hand-start markers in the stream, in order.
StartRows == SelectSeq([i \in 1..Len(rows) |-> i], LAMBDA i : IsStart(rows[i]))

\* C22: after end of stream, a hand that was being assembled is the last
\* element of the output; the i-th Hand of the output is the Hand of the
\* i-th hand-start marker (the Hand's timestamp is its marker's position);
\* and every action of a Hand comes from an entry after the Hand's own marker
\* and before the next marker.
C22_OutputFollowsMarkers ==
  pc = "done" =>
    /\ current_hand # NoHand => hands # <<>> /\ hands[Len(hands)] = current_hand
    /\ \A i \in 1..Len(hands) :
         /\ i <= Len(StartRows)
         /\ heap[hands[i]].timestamp = StartRows[i]
         /\ \A k \in 1..Len(AllActions(heap[hands[i]])) :
              /\ AllActions(heap[hands[i]])[k].timestamp > StartRows[i]
              /\ i < Len(hands) =>
                   AllActions(heap[hands[i]])[k].timestamp < StartRows[i + 1]

\* The class of an entry by first match: the first marker it holds in the
\* order of the tests, else the type of the first action pattern that
\* matches, else "none".
EntryClass(entry) ==
  IF HasMarker(entry)
  THEN MarkerOrder[CHOOSE i \in 1..Len(MarkerOrder) :
                     /\ MarkerOrder[i] \in entry.has
                     /\ \A j \in 1..(i - 1) : MarkerOrder[j] \notin entry.has]
  ELSE PatternType(entry)

\* C23: an entry has the effect of its class by first match only.  Whatever
\* other shapes it fits, it changes the output and the current hand only as
\* a hand start, the players and stacks only as a stack declaration, each
\* community card and the stage only as that reveal (or hand start), the
\* showdowns only as a showdown, the result only as a pot collection and the
\* action lists only as an action; and as an action it appends one Action,
\* of the first matching pattern's type and player, to the current Hand.
C23_FirstMatchDecides ==
  [][RowProcessed =>
       LET class == EntryClass(NewRow)
       IN  /\ class # StartMark =>
                hands' = hands /\ current_hand' = current_hand /\ Len(heap') = Len(heap)
           /\ \A h \in 1..Len(heap) :
                /\ class # StacksMark =>
                     /\ heap'[h].players = heap[h].players
                     /\ heap'[h].player_stacks = heap[h].player_stacks
                /\ class # FlopMark => heap'[h].flop_cards = heap[h].flop_cards
                /\ class # TurnMark => heap'[h].turn_card = heap[h].turn_card
                /\ class # RiverMark => heap'[h].river_card = heap[h].river_card
                /\ class # ShowsMark => heap'[h].showdown = heap[h].showdown
                /\ class # "win" =>
                     /\ heap'[h].winner = heap[h].winner
                     /\ heap'[h].winning_amount = heap[h].winning_amount
                     /\ heap'[h].pot_size = heap[h].pot_size
                /\ (class \notin ActionKinds \/ h # current_hand) =>
                     StageLists(heap'[h]) = StageLists(heap[h])
           /\ current_stage' # current_stage =>
                \/ class = StartMark /\ current_stage' = "preflop"
                \/ class = FlopMark /\ current_stage' = "flop"
                \/ class = TurnMark /\ current_stage' = "turn"
                \/ class = RiverMark /\ current_stage' = "river"
           /\ (class \in ActionKinds /\ current_hand # NoHand) =>
                \E action \in Range(AllActions(heap'[current_hand])) :
                  /\ heap'[current_hand] = AddToStage(heap[current_hand], action, current_stage)
                  /\ action.action = class
                  /\ action.player = clean_player_name(Hit(NewRow).player)]_vars

\* C23 witness: in one hand an entry holding the flop marker and a bet
\* phrase, then an entry holding a check phrase and a fold phrase, were
\* processed; the Hand holds one Action, the fold, on the flop.
C23_Witness ==
  /\ Len(rows) = 3
  /\ current_hand # NoHand
  /\ FlopMark \in rows[2].has /\ FirstPattern(rows[2]) # 0
  /\ Len(rows[3].clauses) = 2
  /\ Len(AllActions(heap[current_hand])) = 1
  /\ heap[current_hand].flop_actions[1].action = "fold"

\* The stacks mapping (a sequence of <<player, amount>> items) is the one the
\* declaration gives: its players are the declared players under their real
\* names, each once, in the order of their first declaration, each with the
\* amount of its last declaration.
MappingOf(declared, stacks) ==
  LET real == [i \in 1..Len(declared) |-> clean_player_name(declared[i][1])]
      First(player) == CHOOSE i \in 1..Len(declared) :
                         real[i] = player /\ \A j \in 1..(i - 1) : real[j] # player
      Last(player) == CHOOSE i \in 1..Len(declared) :
                        real[i] = player /\ \A j \in (i + 1)..Len(declared) : real[j] # player
  IN  /\ {stacks[k][1] : k \in 1..Len(stacks)} = Range(real)
      /\ \A k \in 1..Len(stacks) : stacks[k][2] = declared[Last(stacks[k][1])][2]
      /\ \A k, l \in 1..Len(stacks) : k < l => First(stacks[k][1]) < First(stacks[l][1])

\* C24: while a hand is assembled, a stack declaration makes the Hand's
\* stacks the mapping of the declaration and its players the keys of that
\* mapping in order, and leaves every other field of the Hand, the current
\* stage, the current hand and the output unchanged; and an action entry
\* appends its Action and leaves the players list as it is, whether or not
\* the player is in it.
C24_StacksSetPlayersOnly ==
  [][(RowProcessed /\ current_hand # NoHand) =>
       /\ EntryClass(NewRow) = StacksMark =>
            /\ MappingOf(NewRow.stacks, heap'[current_hand].player_stacks)
            /\ heap'[current_hand].players = DictKeys(heap'[current_hand].player_stacks)
            /\ heap' = [heap EXCEPT ![current_hand] =
                          [@ EXCEPT !.player_stacks = heap'[current_hand].player_stacks,
                                    !.players = heap'[current_hand].players]]
            /\ UNCHANGED <<hands, current_hand, current_stage>>
       /\ EntryClass(NewRow) \in ActionKinds =>
            /\ Len(AllActions(heap'[current_hand])) = Len(AllActions(heap[current_hand])) + 1
            /\ heap'[current_hand].players = heap[current_hand].players]_vars

\* C24 witness: an action was appended while the Hand had no players, then
\* a stack declaration naming one player twice was processed: the Hand has
\* the two players and still the one action.
C24_Witness ==
  /\ Len(rows) = 3
  /\ current_hand # NoHand
  /\ EntryClass(rows[2]) \in ActionKinds
  /\ EntryClass(rows[3]) = StacksMark
  /\ Len(heap[current_hand].players) = 2
  /\ Len(rows[3].stacks) = 3
  /\ Len(AllActions(heap[current_hand])) = 1
  /\ AllActions(heap[current_hand])[1].player \in Range(heap[current_hand].players)

\* C25: in any state, an entry handled as hand-end marker and an entry that
\* holds no marker and matches no action pattern change nothing: the output
\* sequence, the current hand, every field of every Hand and the current
\* stage stay as they are, so the end marker does not seal the Hand.
C25_EndAndUnknownAreNoOps ==
  [][(RowProcessed /\ EntryClass(NewRow) \in {EndMark, "none"}) =>
       UNCHANGED <<hands, current_hand, current_stage, heap>>]_vars

\* C25 witness: in a hand, an entry of no known shape and then the hand-end
\* marker were processed: the hand is still current and not in the output.
C25_Witness ==
  /\ Len(rows) = 3
  /\ EntryClass(rows[2]) = "none"
  /\ EntryClass(rows[3]) = EndMark
  /\ current_hand # NoHand
  /\ hands = <<>>

\* C26: the tagger keeps nothing from one hand to the next or from one
\* stage to the next.  An analyzer that has tagged a hand before returns for
\* the next hand the tags and Summary a new analyzer returns for it; and an
\* action is tagged check-raise only if its player checked earlier in the
\* action's own stage list, whatever the player did on an earlier stage.
C26_AccumulatorsLocal ==
  /\ (rerun_hand # NoneV /\ second_run # NoneV) =>
       /\ StageActions(rerun_hand[1]) = StageActions(second_run[1])
       /\ rerun_hand[1].analysis = second_run[1].analysis
  /\ Analyzed =>
       \A s \in 2..4 : \A k \in 1..Len(StageActions(Enhanced)[s]) :
         HasTag(StageActions(Enhanced)[s][k], "check-raise") =>
           \E j \in 1..(k - 1) :
             /\ StageActions(Enhanced)[s][j].player = StageActions(Enhanced)[s][k].player
             /\ StageActions(Enhanced)[s][j].action = "check"

\* C26 witness: a player checked on one stage and raised on the next, the
\* raise carries no tag, and the hand has been tagged a second time by the
\* same analyzer and once by another.
C26_Witness ==
  /\ rerun_hand # NoneV
  /\ second_run # NoneV
  /\ \E s \in 2..3 :
       /\ Len(StageActions(rerun_hand[1])[s]) = 1
       /\ Len(StageActions(rerun_hand[1])[s + 1]) = 1
       /\ StageActions(rerun_hand[1])[s][1].action = "check"
       /\ StageActions(rerun_hand[1])[s + 1][1].action = "raise"
       /\ StageActions(rerun_hand[1])[s + 1][1].player = StageActions(rerun_hand[1])[s][1].player
       /\ StageActions(rerun_hand[1])[s + 1][1].tags = Some(<<>>)

\* C27: an action tagged check-raise has, earlier in its stage list, a check
\* of its player and, between that check and itself, a bet of another
\* player.
C27_CheckRaiseFollowsBet ==
  Analyzed =>
    \A s \in 2..4 : \A k \in 1..Len(StageActions(Enhanced)[s]) :
      HasTag(StageActions(Enhanced)[s][k], "check-raise") =>
        \E j \in 1..(k - 1) :
          /\ StageActions(Enhanced)[s][j].player = StageActions(Enhanced)[s][k].player
          /\ StageActions(Enhanced)[s][j].action = "check"
          /\ \E m \in (j + 1)..(k - 1) :
               /\ StageActions(Enhanced)[s][m].action = "bet"
               /\ StageActions(Enhanced)[s][m].player # StageActions(Enhanced)[s][k].player

\* The action without its tags.
Untagged(action) == [action EXCEPT !.tags = NoneV]

\* The two hands have the same four stage lists but for the actions' tags:
\* the same lengths, the same order, and in every position the same player,
\* action type, amount, stage and timestamp.
SameActions(before, after) ==
  \A s \in 1..4 :
    /\ Len(StageActions(after)[s]) = Len(StageActions(before)[s])
    /\ \A k \in 1..Len(StageActions(before)[s]) :
         Untagged(StageActions(after)[s][k]) = Untagged(StageActions(before)[s][k])

StageKeys == {"preflop_actions", "flop_actions", "turn_actions", "river_actions"}

\* C28: analyze_hand_actions changes only derived fields.  The returned
\* hand has the keys of the given hand and action_lines and analysis; its
\* other keys hold what they held; its four stage lists, and those of the
\* hand that was passed in, hold the same actions in the same order with the
\* same player, action type, amount, stage and timestamp: only the tags
\* differ.
C28_OnlyDerivedFieldsChange ==
  Analyzed =>
    /\ DOMAIN Enhanced = DOMAIN hand_dict[1] \cup {"action_lines", "analysis"}
    /\ \A key \in DOMAIN hand_dict[1] \ StageKeys : Enhanced[key] = hand_dict[1][key]
    /\ SameActions(hand_dict[1], Enhanced)
    /\ SameActions(hand_dict[1], input_hand[1])
    /\ DOMAIN input_hand[1] = DOMAIN hand_dict[1]
    /\ \A key \in DOMAIN hand_dict[1] \ StageKeys : input_hand[1][key] = hand_dict[1][key]

\* C28 witness: a tagged hand of three actions, a blind, a raise tagged open
\* and a flop bet tagged cbet, equal to the loaded hand but for its tags.
C28_Witness ==
  /\ Analyzed
  /\ Len(Enhanced.preflop_actions) = 2
  /\ Enhanced.preflop_actions[1].action = "blind"
  /\ TagNames(Enhanced.preflop_actions[2]) = <<"open">>
  /\ Len(Enhanced.flop_actions) = 1
  /\ TagNames(Enhanced.flop_actions[1]) = <<"cbet">>
  /\ hand_dict[1].flop_actions[1].tags = NoneV
  /\ Untagged(Enhanced.flop_actions[1]) = hand_dict[1].flop_actions[1]

\* The actions of flop, turn and river, in that order.
PostflopActions(hand) == hand.flop_actions \o hand.turn_actions \o hand.river_actions

\* C29: the Summary agrees with the tagger.  preflop_aggressor is the
\* player of the preflop action tagged open, null when there is none; every
\* action tagged cbet is by that player and no action tagged donk is; and
\* postflop_aggressor is the player of the first bet or raise of flop, turn
\* and river read in that order, null when there is none.
C29_SummaryAgreesWithTagger ==
  Analyzed =>
    /\ Enhanced.analysis.preflop_aggressor =
         FirstPlayer(SelectSeq(Enhanced.preflop_actions, LAMBDA a : HasTag(a, "open")))
    /\ \A k \in 1..Len(PostflopActions(Enhanced)) :
         /\ HasTag(PostflopActions(Enhanced)[k], "cbet") =>
              Enhanced.analysis.preflop_aggressor = Some(PostflopActions(Enhanced)[k].player)
         /\ HasTag(PostflopActions(Enhanced)[k], "donk") =>
              Enhanced.analysis.preflop_aggressor # Some(PostflopActions(Enhanced)[k].player)
    /\ Enhanced.analysis.postflop_aggressor =
         FirstPlayer(SelectSeq(PostflopActions(Enhanced),
                               LAMBDA a : a.action \in {"bet", "raise"}))

\* C29 witness: two preflop raises by different players, the flop opened by
\* a check, and the first bet made on the turn by the second raiser: a donk
\* bet; the Summary names the first raiser and the turn's bettor.
C29_Witness ==
  /\ Analyzed
  /\ Len(Enhanced.preflop_actions) = 2
  /\ TagNames(Enhanced.preflop_actions[1]) = <<"open">>
  /\ TagNames(Enhanced.preflop_actions[2]) = <<"3bet">>
  /\ Enhanced.preflop_actions[1].player # Enhanced.preflop_actions[2].player
  /\ Len(Enhanced.flop_actions) = 1
  /\ Enhanced.flop_actions[1].action = "check"
  /\ Len(Enhanced.turn_actions) = 1
  /\ TagNames(Enhanced.turn_actions[1]) = <<"donk">>
  /\ Enhanced.turn_actions[1].player = Enhanced.preflop_actions[2].player
  /\ Enhanced.analysis.preflop_aggressor = Some(Enhanced.preflop_actions[1].player)
  /\ Enhanced.analysis.postflop_aggressor = Some(Enhanced.turn_actions[1].player)

\* The positions of the pot collections processed for the Hand: the rows
\* after the row that created it (its timestamp) that are pot collections.
CollectionRows(hand) ==
  SelectSeq([i \in 1..Len(rows) |-> i],
            LAMBDA i : i > hand.timestamp /\ IsCollection(rows[i]))

\* C30: every Hand has pot_size equal to winning_amount; and once one or
\* more pot collections were processed for the hand being assembled, its
\* winner, winning_amount and pot_size are those of the last of them: the
\* amounts are overwritten, not summed.
C30_PotIsLastCollection ==
  /\ \A h \in 1..Len(heap) : heap[h].pot_size = heap[h].winning_amount
  /\ (current_hand # NoHand /\ CollectionRows(heap[current_hand]) # <<>>) =>
       LET last == rows[CollectionRows(heap[current_hand])[Len(CollectionRows(heap[current_hand]))]]
       IN  /\ heap[current_hand].winner = Some(clean_player_name(Hit(last).player))
           /\ heap[current_hand].winning_amount = Hit(last).digits[1]
           /\ heap[current_hand].pot_size = Hit(last).digits[1]

\* C30 witness: two pot collections of different players and amounts were
\* processed in one hand; the Hand holds the second one's player and amount.
C30_Witness ==
  /\ Len(rows) = 3
  /\ current_hand # NoHand
  /\ IsCollection(rows[2])
  /\ IsCollection(rows[3])
  /\ Hit(rows[2]).digits[1] # Hit(rows[3]).digits[1]
  /\ Hit(rows[2]).player # Hit(rows[3]).player
  /\ heap[current_hand].winner = Some(clean_player_name(Hit(rows[3]).player))
  /\ heap[current_hand].pot_size = Hit(rows[3]).digits[1]
  /\ heap[current_hand].winning_amount = Hit(rows[3]).digits[1]

====
